---------------------------- MODULE Spec2Model ----------------------------
(***************************************************************************)
(* Version resolution of the nekobot package (src/nekobot/__init__.py).    *)
(*                                                                         *)
(* The module body queries the installed-package metadata registry for     *)
(* the distribution "NekoBot"; on PackageNotFoundError it falls back to    *)
(* _read_version_from_pyproject(), which tests pyproject.toml with         *)
(* is_file(), reads it as UTF-8 text and searches it with the pattern      *)
(*     ^version\s*=\s*['"]([^'"]+)['"]        (re.MULTILINE)               *)
(* The result is bound to __version__; get_version() returns that global.  *)
(*                                                                         *)
(* Text is modelled as a sequence of one-character strings, and the        *)
(* pattern search is computed position by position over that sequence.     *)
(* The registry and the manifest belong to the environment and may change  *)
(* at any time, also between is_file() and read_text().                    *)
(***************************************************************************)
EXTENDS Naturals, Sequences, FiniteSets

(* Largest number of lines of a manifest the environment starts with. *)
MaxLines == 2

-----------------------------------------------------------------------------
(* Characters and strings *)

NL == "\n"
DQ == "\""
SQ == "'"
BadByte == "0xFF"            \* a byte that is not valid UTF-8

Whitespace == {" ", "\t", NL}                   \* \s  (line 38)
DoubleQuoteOnly == {DQ}
QuoteChars == {DQ, SQ}                          \* ['\"]  (line 38)

KeyVersion == <<"v", "e", "r", "s", "i", "o", "n">>
ShortDefault == <<"0", ".", "0">>
DefaultVersion == <<"0", ".", "0", ".", "0">>   \* "0.0.0"  (lines 35, 44)

(* The name __version__ is unbound until the module body has assigned it. *)
Unbound == <<"<unbound>">>

V123 == <<"1", ".", "2", ".", "3">>
V09 == <<"0", ".", "9">>
V311 == <<"3", ".", "1", "1">>
V200 == <<"2", ".", "0", ".", "0">>
V999 == <<"9", ".", "9", ".", "9">>

-----------------------------------------------------------------------------
(* Manifest files.  A file is a sequence of lines; a line is kept in      *)
(* pieces so that properties can speak about lines, and is rendered to    *)
(* characters for the program to read.                                    *)

Line(pre, key, ws1, eq, ws2, open, val, close) ==
    [pre |-> pre, key |-> key, ws1 |-> ws1, eq |-> eq, ws2 |-> ws2,
     open |-> open, val |-> val, close |-> close]

LineShapes ==
    { Line(<<>>, KeyVersion, <<" ">>, <<"=">>, <<" ">>, <<DQ>>, V123, <<DQ>>),  \* version = "1.2.3"
      Line(<<>>, KeyVersion, <<>>, <<"=">>, <<>>, <<SQ>>, V09, <<SQ>>),        \* version='0.9'
      Line(<<>>, KeyVersion, <<" ">>, <<"=">>, <<" ">>, <<DQ>>, V123, <<SQ>>),  \* version = "1.2.3'
      Line(<<" ">>, KeyVersion, <<" ">>, <<"=">>, <<" ">>, <<DQ>>, V123, <<DQ>>), \* indented
      Line(<<"p", "y", "_">>, KeyVersion, <<" ">>, <<"=">>, <<" ">>, <<DQ>>, V311, <<DQ>>), \* py_version = "3.11"
      Line(<<>>, <<"n", "a", "m", "e">>, <<" ">>, <<"=">>, <<" ">>, <<DQ>>, <<"x">>, <<DQ>>), \* name = "x"
      Line(<<>>, KeyVersion, <<" ">>, <<"=">>, <<" ">>, <<DQ>>, <<>>, <<DQ>>),  \* version = ""
      Line(<<>>, KeyVersion, <<" ">>, <<"=">>, <<" ">>, <<DQ>>, V123, <<>>),    \* version = "1.2.3
      Line(<<>>, KeyVersion, <<>>, <<>>, <<>>, <<>>, <<>>, <<>>),               \* version
      Line(<<>>, <<>>, <<" ">>, <<"=">>, <<" ">>, <<DQ>>, V123, <<DQ>>),        \*  = "1.2.3"
      Line(<<>>, KeyVersion, <<" ">>, <<"=">>, <<" ">>, <<>>, V123, <<>>),      \* version = 1.2.3
      Line(<<>>, <<BadByte>>, <<>>, <<>>, <<>>, <<>>, <<>>, <<>>) }            \* an undecodable byte

RenderLine(l) ==
    l.pre \o l.key \o l.ws1 \o l.eq \o l.ws2 \o l.open \o l.val \o l.close \o <<NL>>

RECURSIVE Render(_)
Render(lines) ==
    IF lines = <<>> THEN <<>> ELSE RenderLine(Head(lines)) \o Render(Tail(lines))

ManifestFiles == UNION { [1..n -> LineShapes] : n \in 0..MaxLines }

NoFile == [exists |-> FALSE, lines |-> <<>>]
File(lines) == [exists |-> TRUE, lines |-> lines]

(* What another process may turn the manifest into while this one runs. *)
Rewritten ==
    File(<<Line(<<>>, KeyVersion, <<" ">>, <<"=">>, <<" ">>, <<DQ>>, V999, <<DQ>>)>>)

-----------------------------------------------------------------------------
(* The registry *)

NotFound == [found |-> FALSE, version |-> <<>>]
Found(v) == [found |-> TRUE, version |-> v]
RegistryOutcomes == {NotFound, Found(V200), Found(V123)}


-----------------------------------------------------------------------------
(* re.search(r"^version\s*=\s*['\"]([^'\"]+)['\"]", text, re.MULTILINE)    *)

NoMatch == [matched |-> FALSE, group1 |-> <<>>]

(* ^ without re.MULTILINE: the start of the text only. *)
AtTextStart(text, i) == i = 1

(* No ^ at all: any position. *)
AtAnyPosition(text, i) == i >= 1

(* ^ under re.MULTILINE: the start of the text or just after a newline. *)
AtLineStart(text, i) == i = 1 \/ text[i - 1] = NL

HasLiteral(text, i, lit) ==
    /\ i + Len(lit) - 1 <= Len(text)
    /\ SubSeq(text, i, i + Len(lit) - 1) = lit

CharIn(text, i, class) == i <= Len(text) /\ text[i] \in class

(* \s* : the first position at or after i that holds no whitespace. *)
RECURSIVE SkipWhitespace(_, _)
SkipWhitespace(text, i) ==
    IF CharIn(text, i, Whitespace) THEN SkipWhitespace(text, i + 1) ELSE i

(* [^'"]* : the first position at or after i that holds a quote, or the end. *)
RECURSIVE SkipUnquoted(_, _)
SkipUnquoted(text, i) ==
    IF i <= Len(text) /\ text[i] \notin QuoteChars
    THEN SkipUnquoted(text, i + 1) ELSE i

(* The pattern tried at position i.  Every repetition is followed by a    *)
(* character outside its class, so the greedy match is the only one.      *)
MatchAt(text, i) ==
    LET eq == SkipWhitespace(text, i + Len(KeyVersion))
        open == SkipWhitespace(text, eq + 1)
        close == SkipUnquoted(text, open + 1)
    IN  IF /\ AtLineStart(text, i)
           /\ HasLiteral(text, i, KeyVersion)
           /\ CharIn(text, eq, {"="})
           /\ CharIn(text, open, QuoteChars)
           /\ close > open + 1
           /\ CharIn(text, close, QuoteChars)
        THEN [matched |-> TRUE, group1 |-> SubSeq(text, open + 1, close - 1)]
        ELSE NoMatch

(* re.search: the match at the leftmost position that has one. *)
RECURSIVE SearchFrom(_, _)
SearchFrom(text, i) ==
    IF i > Len(text) THEN NoMatch
    ELSE IF MatchAt(text, i).matched THEN MatchAt(text, i)
    ELSE SearchFrom(text, i + 1)

re_search(text) == SearchFrom(text, 1)

(* Line 43 without the test of line 42. *)
VersionFromTextUnchecked(text) == re_search(text).group1

(* Lines 42-44: the captured group, or the default. *)
VersionFromText(text) ==
    IF re_search(text).matched THEN re_search(text).group1 ELSE DefaultVersion

(* read_text(encoding="utf-8") raises when the file has gone or its bytes *)
(* are not UTF-8; the exception is not caught anywhere in the module.     *)
CanReadText(file) ==
    /\ file.exists
    /\ \A i \in 1..Len(Render(file.lines)) : Render(file.lines)[i] # BadByte

-----------------------------------------------------------------------------
(* State *)

VARIABLES
    registry,      \* what importlib_metadata.version("NekoBot") would answer now
    manifest,      \* <project_root>/pyproject.toml as it is now
    pc,            \* position in the module body: "import", "is_file",
                   \* "read_text", then "ready" (imported) or "raised"
    __version__,   \* the module global
    log,           \* the environment queries made so far, in order
    seenRegistry,  \* the answer line 48 got
    seenIsFile,    \* whether the file was there when line 34 asked
    seenFile,      \* the file line 39 read
    result,        \* what the last get_version() call returned
    attr           \* what the last read of nekobot.__version__ gave

vars == <<registry, manifest, pc, __version__, log, seenRegistry, seenIsFile,
          seenFile, result, attr>>

NotYet == "not yet"

Init ==
    /\ registry \in RegistryOutcomes
    /\ manifest \in {NoFile} \cup {File(ls) : ls \in ManifestFiles}
    /\ pc = "import"
    /\ __version__ = Unbound
    /\ log = <<>>
    /\ seenRegistry = NotYet
    /\ seenIsFile = NotYet
    /\ seenFile = NotYet
    /\ result = Unbound
    /\ attr = Unbound

-----------------------------------------------------------------------------
(* The module body, lines 47-50 *)

(* The except branch taken whatever line 48 answered. *)
MetadataNeverFound(answer) == FALSE

(* Line 48 returns; line 49 catches PackageNotFoundError only. *)
MetadataFound(answer) == answer.found

(* The test of line 34 passing whether or not the file is there. *)
PathIsFileAlways(file) == TRUE

(* Line 34: pyproject_path.is_file() *)
PathIsFile(file) == file.exists

(* Lines 47-50: importlib_metadata.version("NekoBot") *)
ImportMetadataVersion ==
    /\ pc = "import"
    /\ log' = Append(log, "metadata.version")
    /\ seenRegistry' = registry
    /\ IF MetadataFound(registry)
       THEN /\ __version__' = registry.version
            /\ pc' = "ready"
       ELSE /\ pc' = "is_file"
            /\ UNCHANGED __version__
    /\ UNCHANGED <<registry, manifest, seenIsFile, seenFile, result, attr>>

(* Lines 32-35: pyproject_path.is_file() *)
IsFile ==
    /\ pc = "is_file"
    /\ log' = Append(log, "is_file")
    /\ seenIsFile' = manifest.exists
    /\ IF PathIsFile(manifest)
       THEN /\ pc' = "read_text"
            /\ UNCHANGED __version__
       ELSE /\ __version__' = DefaultVersion
            /\ pc' = "ready"
    /\ UNCHANGED <<registry, manifest, seenRegistry, seenFile, result, attr>>

(* Lines 37-44: read_text, re.search, return; then the binding of line 50 *)
ReadTextAndSearch ==
    /\ pc = "read_text"
    /\ log' = Append(log, "read_text")
    /\ seenFile' = manifest
    /\ IF CanReadText(manifest)
       THEN /\ __version__' = VersionFromText(Render(manifest.lines))
            /\ pc' = "ready"
       ELSE /\ pc' = "raised"
            /\ UNCHANGED __version__
    /\ UNCHANGED <<registry, manifest, seenRegistry, seenIsFile, result, attr>>

-----------------------------------------------------------------------------
(* Readers.  The import system hands the module out once its body has run. *)

(* The version resolved anew from the environment as it is now. *)
Reresolved ==
    IF MetadataFound(registry) THEN registry.version
    ELSE IF ~PathIsFile(manifest) THEN DefaultVersion
    ELSE IF CanReadText(manifest) THEN VersionFromText(Render(manifest.lines))
    ELSE Unbound

(* Line 56: return __version__ *)
ReturnedVersion == __version__

(* A get_version() that resolves at each call instead of at import. *)
get_version_lazy ==
    /\ pc = "ready"
    /\ log' = Append(log, "metadata.version")
    /\ __version__' = Reresolved
    /\ result' = Reresolved
    /\ UNCHANGED <<registry, manifest, pc, seenRegistry, seenIsFile,
                   seenFile, attr>>

(* Lines 53-56 *)
get_version ==
    /\ pc = "ready"
    /\ result' = ReturnedVersion
    /\ UNCHANGED <<registry, manifest, pc, __version__, log, seenRegistry,
                   seenIsFile, seenFile, attr>>

(* nekobot.__version__, exported by line 18 *)
ReadAttribute ==
    /\ pc = "ready"
    /\ attr' = __version__
    /\ UNCHANGED <<registry, manifest, pc, __version__, log, seenRegistry,
                   seenIsFile, seenFile, result>>

-----------------------------------------------------------------------------
(* The environment: other processes install or remove the distribution,   *)
(* and delete or rewrite pyproject.toml.                                   *)

RegistryChanges ==
    /\ registry' \in RegistryOutcomes \ {registry}
    /\ UNCHANGED <<manifest, pc, __version__, log, seenRegistry, seenIsFile,
                   seenFile, result, attr>>

ManifestChanges ==
    /\ manifest' \in {NoFile, Rewritten} \ {manifest}
    /\ UNCHANGED <<registry, pc, __version__, log, seenRegistry, seenIsFile,
                   seenFile, result, attr>>

Next ==
    \/ ImportMetadataVersion
    \/ IsFile
    \/ ReadTextAndSearch
    \/ get_version
    \/ ReadAttribute
    \/ RegistryChanges
    \/ ManifestChanges

Spec == Init /\ [][Next]_vars

-----------------------------------------------------------------------------
(* Vocabulary of the properties *)

Did(step) == \E i \in DOMAIN log : log[i] = step

Imported == pc = "ready"

(* The manifest was read and the module came up: lines 37-44 returned. *)
ReadManifest == Imported /\ Did("read_text")
LinesRead == seenFile.lines

(* The string "0.0.0", written out. *)
ZeroVersion == <<"0", ".", "0", ".", "0">>

(* get_version() has been called and has returned v. *)
Returned(v) == result = v
ReturnsOnly(v) == result \in {Unbound, v}

(* Properties of one manifest line, read off its pieces. *)
KeyAtLineStart(l) == l.pre = <<>> /\ l.key = KeyVersion

(* The line on its own matches the pattern: key at line start, "=", a     *)
(* quote, a non-empty value, a quote.                                     *)
MatchesPattern(l) ==
    /\ KeyAtLineStart(l)
    /\ l.eq = <<"=">>
    /\ l.open # <<>>
    /\ l.val # <<>>
    /\ l.close # <<>>

(* The value sits in a pair of double quotes or a pair of single quotes. *)
PairQuoted(l) == MatchesPattern(l) /\ l.open = l.close

(* The line is a beginning of the pattern that runs to the end of the     *)
(* line: the key alone, the key and "=", or an opening quote never closed.*)
Incomplete(l) ==
    /\ KeyAtLineStart(l)
    /\ l.close = <<>>
    /\ \/ l.eq = <<>> /\ l.open = <<>> /\ l.val = <<>>
       \/ l.eq = <<"=">> /\ (l.open # <<>> \/ l.val = <<>>)

(* The key appears on the line, but not at its start. *)
KeyMidLine(l) == l.key = KeyVersion /\ l.pre # <<>>

HasMatchingLine(lines) == \E i \in DOMAIN lines : MatchesPattern(lines[i])
FirstMatchingIndex(lines) ==
    CHOOSE i \in DOMAIN lines :
        /\ MatchesPattern(lines[i])
        /\ \A j \in 1..(i - 1) : ~MatchesPattern(lines[j])
FirstMatchingLine(lines) == lines[FirstMatchingIndex(lines)]
NoIncompleteLineBefore(lines, n) == \A i \in 1..(n - 1) : ~Incomplete(lines[i])
NoIncompleteLine(lines) == \A i \in DOMAIN lines : ~Incomplete(lines[i])

-----------------------------------------------------------------------------
(* C1: the import followed by get_version() never raises and always gives *)
(* a string, whatever the registry answers and whatever the manifest is,  *)
(* a manifest that cannot be read or decoded included.                    *)
C1_NeverRaises ==
    /\ pc # "raised"
    /\ Imported => __version__ # Unbound

(* C2: when the registry reports a version, get_version() returns exactly *)
(* that string, whatever the manifest is.                                 *)
C2_RegistryHasPriority ==
    (Did("metadata.version") /\ seenRegistry.found) =>
        /\ Imported
        /\ __version__ = seenRegistry.version
        /\ ReturnsOnly(seenRegistry.version)

C2_Witness ==
    /\ Did("metadata.version") /\ seenRegistry.found
    /\ Returned(seenRegistry.version)
    /\ manifest.exists
    /\ HasMatchingLine(manifest.lines)
    /\ FirstMatchingLine(manifest.lines).val # seenRegistry.version

(* C3, as stated: when the registry reports not-found and the manifest    *)
(* has lines matching the pattern, get_version() returns the value of the *)
(* first such line.                                                       *)
C3_FirstLineWins ==
    (ReadManifest /\ HasMatchingLine(LinesRead)) =>
        /\ __version__ = FirstMatchingLine(LinesRead).val
        /\ ReturnsOnly(FirstMatchingLine(LinesRead).val)

(* C3, amended: the same, provided no line before the first matching one *)
(* is an incomplete version line (from which the pattern runs on into the *)
(* lines that follow).                                                    *)
C3_FirstLineWinsAmended ==
    (/\ ReadManifest
     /\ HasMatchingLine(LinesRead)
     /\ NoIncompleteLineBefore(LinesRead, FirstMatchingIndex(LinesRead))) =>
        /\ __version__ = FirstMatchingLine(LinesRead).val
        /\ ReturnsOnly(FirstMatchingLine(LinesRead).val)

C3_Witness ==
    /\ ReadManifest
    /\ Len(LinesRead) >= 2
    /\ ~MatchesPattern(LinesRead[1])
    /\ ~Incomplete(LinesRead[1])
    /\ MatchesPattern(LinesRead[2])
    /\ Returned(LinesRead[2].val)

(* C4: when the registry reports not-found and the manifest file does not *)
(* exist, get_version() returns exactly "0.0.0" and the manifest is never *)
(* read.                                                                  *)
C4_AbsentManifest ==
    (Did("is_file") /\ ~seenIsFile) =>
        /\ Imported
        /\ __version__ = ZeroVersion
        /\ ReturnsOnly(ZeroVersion)
        /\ ~Did("read_text")

C4_Witness ==
    /\ Did("is_file") /\ ~seenIsFile
    /\ ~seenRegistry.found
    /\ Returned(ZeroVersion)

(* C5, as stated: when the registry reports not-found and the manifest    *)
(* exists but no line of it matches the pattern, get_version() returns    *)
(* exactly "0.0.0".                                                       *)
C5_NoVersionLine ==
    (ReadManifest /\ ~HasMatchingLine(LinesRead)) =>
        /\ __version__ = ZeroVersion
        /\ ReturnsOnly(ZeroVersion)

(* C5, amended: the same, provided no line is an incomplete version line. *)
C5_NoVersionLineAmended ==
    (ReadManifest /\ ~HasMatchingLine(LinesRead) /\ NoIncompleteLine(LinesRead)) =>
        /\ __version__ = ZeroVersion
        /\ ReturnsOnly(ZeroVersion)

C5_Witness ==
    /\ ReadManifest
    /\ LinesRead # <<>>
    /\ ~HasMatchingLine(LinesRead)
    /\ NoIncompleteLine(LinesRead)
    /\ \E i \in DOMAIN LinesRead : KeyAtLineStart(LinesRead[i])
    /\ Returned(ZeroVersion)

(* C6: once the module is imported, the attribute __version__ and the     *)
(* result of get_version() are the same value, after any sequence of      *)
(* calls and attribute reads.                                             *)
C6_AttributeAgrees ==
    /\ (result # Unbound /\ attr # Unbound) => result = attr
    /\ result # Unbound => result = __version__
    /\ attr # Unbound => attr = __version__

C6_Witness ==
    /\ result # Unbound
    /\ attr = result
    /\ Reresolved # result

(* C7: a manifest whose only version keys stand mid-line (indented, or    *)
(* after other characters on the line) does not match: "0.0.0".           *)
C7_AnchoredAtLineStart ==
    (/\ ReadManifest
     /\ \E i \in DOMAIN LinesRead : KeyMidLine(LinesRead[i])
     /\ \A i \in DOMAIN LinesRead : ~KeyAtLineStart(LinesRead[i])) =>
        /\ __version__ = ZeroVersion
        /\ ReturnsOnly(ZeroVersion)

C7_Witness ==
    /\ ReadManifest
    /\ \E i \in DOMAIN LinesRead : KeyMidLine(LinesRead[i])
    /\ \A i \in DOMAIN LinesRead : ~KeyAtLineStart(LinesRead[i])
    /\ Returned(ZeroVersion)

(* C8: the version is resolved once, during the import and before any     *)
(* reader sees it; afterwards it never changes, every get_version() call  *)
(* returns the same string, and no call queries the registry or reads the *)
(* manifest again, even when those change.                                *)
C8_ResolvedOnce ==
    /\ []((result # Unbound \/ attr # Unbound) => Imported)
    /\ [](\A i, j \in DOMAIN log : log[i] = log[j] => i = j)
    /\ [][Imported => (pc' = pc /\ __version__' = __version__ /\ log' = log)]_vars
    /\ [][result # Unbound => result' = result]_vars

C8_Witness ==
    /\ ReadManifest
    /\ Returned(__version__)
    /\ manifest # seenFile
    /\ registry # seenRegistry
    /\ Reresolved # result

(* C9: resolution goes registry query, then existence check, then read,   *)
(* each at most once; the existence check only after the registry said    *)
(* not-found, the read only after the check found the file; and no step   *)
(* of the program changes the manifest.                                   *)
C9_OrderAndFrame ==
    /\ [](log = SubSeq(<<"metadata.version", "is_file", "read_text">>, 1, Len(log)))
    /\ [](Did("is_file") => ~seenRegistry.found)
    /\ [](Did("read_text") => seenIsFile)
    /\ [][(pc' # pc \/ log' # log \/ result' # result \/ attr' # attr)
            => manifest' = manifest]_vars

C9_Witness ==
    /\ Imported
    /\ log = <<"metadata.version", "is_file", "read_text">>
    /\ manifest = seenFile
    /\ result # Unbound

(* C10, as stated: a line is the version line only if its non-empty value *)
(* sits in a pair of double quotes or a pair of single quotes; a manifest *)
(* holding only a line that is not so quoted, such as one whose two quote *)
(* characters differ, gives "0.0.0".                                      *)
C10_PairQuotedOnly ==
    (ReadManifest /\ Len(LinesRead) = 1 /\ ~PairQuoted(LinesRead[1])) =>
        /\ __version__ = ZeroVersion
        /\ ReturnsOnly(ZeroVersion)

(* C10, amended: a line, taken as the only line of the manifest, is the   *)
(* version line exactly if its non-empty value follows a double or single *)
(* quote and is followed by a double or single quote, the same or not; so *)
(* a line whose two quote characters differ gives its value.              *)
C10_QuotedEitherWay ==
    (ReadManifest /\ Len(LinesRead) = 1) =>
        LET expected == IF MatchesPattern(LinesRead[1])
                        THEN LinesRead[1].val ELSE ZeroVersion
        IN  __version__ = expected /\ ReturnsOnly(expected)

C10_Witness ==
    /\ ReadManifest
    /\ Len(LinesRead) = 1
    /\ MatchesPattern(LinesRead[1])
    /\ ~PairQuoted(LinesRead[1])
    /\ Returned(LinesRead[1].val)

=============================================================================
